---- MODULE Spec2Model ----
(***************************************************************************)
(* Trade execution and risk management engine of tsx-trader:               *)
(*   backend/app/services/trading/risk_manager.py   (RiskManager)          *)
(*   backend/app/services/trading/trade_executor.py (TradeExecutor)        *)
(*   backend/app/tasks/trading_tasks.py             (monitor_stop_losses)  *)
(*   backend/app/models/trade.py, user.py, portfolio.py (tables)           *)
(*                                                                         *)
(* One account.  The committed database is the state: stocks, positions,   *)
(* orders, executions, settings, snapshot.  Money is kept exact: prices    *)
(* are whole numbers and every quotient the code forms (average_cost,      *)
(* percentages) is a reduced fraction <<numerator, denominator>>, so the   *)
(* rounding of Python floats is not modelled.  A nullable column is <<>>   *)
(* (None) or <<v>>.                                                        *)
(***************************************************************************)
EXTENDS Integers, Sequences, FiniteSets, TLC

(* ------------------------------ bounds -------------------------------- *)
\* orders one run may create
MaxOrders == 2
\* largest share quantity of a request
MaxQty == 2

(* ------------------------------ values -------------------------------- *)
None == <<>>
Some(x) == <<x>>
IsNone(o) == o = <<>>
Val(o) == o[1]
\* Python truthiness of an Optional[float]: None and 0.0 are both false
Truthy(o) == o # <<>> /\ o[1] # 0

Symbols == {"AAA", "BBB"}
BUY == "buy"
SELL == "sell"
Sides == {BUY, SELL}
\* place_order takes quantity: int and checks no sign
Quantities == {0 - 1} \cup (0..MaxQty)
\* what AlphaVantageService.get_latest_price can answer
Quotes == {None, Some(90), Some(110)}
LimitPrices == {None, Some(100)}
StopLossPrices == {None, Some(95)}
TakeProfitPrices == {None, Some(110)}

PENDING == "pending"
SUBMITTED == "submitted"
PARTIAL == "partial"
FILLED == "filled"
CANCELLED == "cancelled"
REJECTED == "rejected"
OrderStatus == {PENDING, SUBMITTED, PARTIAL, FILLED, CANCELLED, REJECTED}

(* --------------------------- exact fractions -------------------------- *)
Abs(x) == IF x < 0 THEN 0 - x ELSE x

RECURSIVE Gcd(_, _)
Gcd(a, b) == IF b = 0 THEN a ELSE Gcd(b, a % b)

\* n/d reduced, denominator positive (d # 0)
Frac(n, d) ==
    LET g == Gcd(Abs(n), Abs(d))
        s == IF d < 0 THEN 0 - 1 ELSE 1
    IN  <<(s * n) \div g, (s * d) \div g>>
FInt(n) == <<n, 1>>
FAdd(x, y) == Frac(x[1] * y[2] + y[1] * x[2], x[2] * y[2])
FSub(x, y) == Frac(x[1] * y[2] - y[1] * x[2], x[2] * y[2])
FMul(x, y) == Frac(x[1] * y[1], x[2] * y[2])
\* y # 0
FDiv(x, y) == Frac(x[1] * y[2], x[2] * y[1])
FZero == FInt(0)
FPos(x) == x[1] > 0

(* ------------------------------- state -------------------------------- *)
VARIABLES
    stocks,      \* symbols that have a row in stocks
    positions,   \* positions table: symbol -> None or <<row>> (unique index on user, stock)
    orders,      \* trade_orders table, in id order: orders[i].id = i
    executions,  \* trade_executions table, in id order
    settings,    \* the account's user_settings row
    snapshot,    \* the latest portfolio_snapshots row of the account, or None
    sess         \* sessions that are inside a place_order call (concurrent runs)

vars == <<stocks, positions, orders, executions, settings, snapshot, sess>>

\* the tables one database session reads and writes
DB == [stocks |-> stocks, positions |-> positions, orders |-> orders,
       executions |-> executions]

\* column defaults of user_settings
DefaultSettings ==
    [position_size_pct |-> 20, daily_loss_limit_pct |-> 5,
     max_open_positions |-> 10, min_cash_reserve_pct |-> 10,
     min_risk_reward_ratio |-> 2, paper_trading_enabled |-> TRUE,
     require_stop_loss |-> TRUE, circuit_breaker_enabled |-> TRUE]

\* the snapshots the portfolio collaborator may have written last
SnapshotChoices ==
    { [is_today |-> TRUE, total_value |-> 2000, cash_balance |-> 1000, daily_pnl_pct |-> 0],
      [is_today |-> TRUE, total_value |-> 2000, cash_balance |-> 1000, daily_pnl_pct |-> 0 - 6] }

(* ----------------------------- RiskManager ---------------------------- *)
OK == "ok"

_get_portfolio_value == IF IsNone(snapshot) THEN 0 ELSE Val(snapshot).total_value

_get_cash_balance == IF IsNone(snapshot) THEN 0 ELSE Val(snapshot).cash_balance

_get_open_positions_count(db) ==
    Cardinality({s \in Symbols : ~IsNone(db.positions[s]) /\ Val(db.positions[s]).is_open})

\* a daily P&L read from the latest snapshot whatever its date
_get_daily_pnl_Latest ==
    IF ~IsNone(snapshot) THEN Val(snapshot).daily_pnl_pct ELSE 0

\* daily_pnl_pct of the snapshot dated today, 0 without one
_get_daily_pnl ==
    IF ~IsNone(snapshot) /\ Val(snapshot).is_today THEN Val(snapshot).daily_pnl_pct ELSE 0

\* the open position of the account for a symbol, as the queries of lines 94-103 and
\* 49-57 find it: None when there is no row or the row is closed
OpenPosition(db, symbol) ==
    IF ~IsNone(db.positions[symbol]) /\ Val(db.positions[symbol]).is_open
    THEN db.positions[symbol] ELSE None

\* a sell-ability check that looks for the position and not at its quantity
validate_position_size_AnyQuantity(db, symbol, quantity, price, side) ==
    IF side = SELL
    THEN IF IsNone(OpenPosition(db, symbol)) THEN "no_open_position" ELSE OK
    ELSE IF _get_portfolio_value = 0 THEN "portfolio_value_zero"
         ELSE IF FPos(FSub(Frac(quantity * price * 100, _get_portfolio_value),
                           FInt(settings.position_size_pct)))
              THEN "position_size_exceeds_limit"
         ELSE OK

\* a sizing check that also rejects a trade exactly at the limit
validate_position_size_AtLimit(db, symbol, quantity, price, side) ==
    IF side = SELL
    THEN IF IsNone(OpenPosition(db, symbol)) THEN "no_open_position"
         ELSE IF Val(OpenPosition(db, symbol)).quantity < quantity THEN "insufficient_shares"
         ELSE OK
    ELSE IF _get_portfolio_value = 0 THEN "portfolio_value_zero"
         ELSE IF ~FPos(FSub(FInt(settings.position_size_pct),
                            Frac(quantity * price * 100, _get_portfolio_value)))
              THEN "position_size_exceeds_limit"
         ELSE OK

validate_position_size(db, symbol, quantity, price, side) ==
    IF side = SELL
    THEN IF IsNone(OpenPosition(db, symbol)) THEN "no_open_position"
         ELSE IF Val(OpenPosition(db, symbol)).quantity < quantity THEN "insufficient_shares"
         ELSE OK
    ELSE IF _get_portfolio_value = 0 THEN "portfolio_value_zero"
         \* (trade_value / portfolio_value) * 100 > position_size_pct
         ELSE IF FPos(FSub(Frac(quantity * price * 100, _get_portfolio_value),
                           FInt(settings.position_size_pct)))
              THEN "position_size_exceeds_limit"
         ELSE OK

\* a cash check that spends the reserve
validate_cash_available_NoReserve(quantity, price, side) ==
    IF side = SELL THEN OK
    ELSE IF quantity * price > _get_cash_balance THEN "insufficient_cash" ELSE OK

validate_cash_available(quantity, price, side) ==
    IF side = SELL THEN OK
    ELSE LET trade_value == FInt(quantity * price)
             min_cash_reserve == Frac(_get_portfolio_value * settings.min_cash_reserve_pct, 100)
             available_cash == FSub(FInt(_get_cash_balance), min_cash_reserve)
         IN  IF FPos(FSub(trade_value, available_cash)) THEN "insufficient_cash" ELSE OK

validate_stop_loss(stop_loss_price, price) ==
    IF ~settings.require_stop_loss THEN OK
    ELSE IF IsNone(stop_loss_price) THEN "stop_loss_required"
    ELSE LET stop_loss_pct == Frac(Abs(Val(stop_loss_price) - price) * 100, price)
         IN  IF FPos(FSub(FInt(1), stop_loss_pct)) THEN "stop_loss_too_tight"
             ELSE IF FPos(FSub(stop_loss_pct, FInt(20))) THEN "stop_loss_too_wide"
             ELSE OK

validate_risk_reward(entry_price, stop_loss_price, take_profit_price) ==
    IF IsNone(stop_loss_price) \/ IsNone(take_profit_price) THEN OK
    ELSE LET risk == Abs(entry_price - Val(stop_loss_price))
             reward == Abs(Val(take_profit_price) - entry_price)
         IN  IF risk = 0 THEN "risk_zero"
             ELSE IF FPos(FSub(FInt(settings.min_risk_reward_ratio), Frac(reward, risk)))
                  THEN "risk_reward_too_low"
             ELSE OK

check_circuit_breaker ==
    IF ~settings.circuit_breaker_enabled THEN OK
    ELSE IF _get_daily_pnl < 0 - settings.daily_loss_limit_pct THEN "circuit_breaker"
    ELSE OK

\* a limit check that rejects only once the count is over the limit
check_max_positions_OverOnly(db, side) ==
    IF side = SELL THEN OK
    ELSE IF _get_open_positions_count(db) > settings.max_open_positions
         THEN "max_positions_reached"
    ELSE OK

check_max_positions(db, side) ==
    IF side = SELL THEN OK
    ELSE IF _get_open_positions_count(db) >= settings.max_open_positions
         THEN "max_positions_reached"
    ELSE OK

\* the first check that raises, in the order validate_trade runs them
FirstFailure(reasons) ==
    IF \E i \in 1..Len(reasons) : reasons[i] # OK
    THEN reasons[CHOOSE i \in 1..Len(reasons) :
                    reasons[i] # OK /\ \A j \in 1..(i - 1) : reasons[j] = OK]
    ELSE OK

\* a validate_trade that looks at the cash before the position size
validate_trade_CashFirst(db, symbol, side, quantity, price, stop_loss_price, take_profit_price) ==
    LET reason == FirstFailure(<<
            check_circuit_breaker,
            check_max_positions(db, side),
            validate_cash_available(quantity, price, side),
            validate_position_size(db, symbol, quantity, price, side),
            validate_stop_loss(stop_loss_price, price),
            validate_risk_reward(price, stop_loss_price, take_profit_price) >>)
        portfolio_value == _get_portfolio_value
        trade_value == quantity * price
    IN  [validated |-> reason = OK,
         reason |-> reason,
         trade_value |-> trade_value,
         position_size_pct |-> IF portfolio_value > 0
                               THEN Frac(trade_value * 100, portfolio_value) ELSE FZero,
         risk_amount |-> IF Truthy(stop_loss_price)
                         THEN Abs(price - Val(stop_loss_price)) * quantity ELSE 0,
         portfolio_value |-> portfolio_value]

\* [validated, reason] and, when validated, the trade metrics
validate_trade(db, symbol, side, quantity, price, stop_loss_price, take_profit_price) ==
    LET reason == FirstFailure(<<
            check_circuit_breaker,
            check_max_positions(db, side),
            validate_position_size(db, symbol, quantity, price, side),
            validate_cash_available(quantity, price, side),
            validate_stop_loss(stop_loss_price, price),
            validate_risk_reward(price, stop_loss_price, take_profit_price) >>)
        portfolio_value == _get_portfolio_value
        trade_value == quantity * price
    IN  [validated |-> reason = OK,
         reason |-> reason,
         trade_value |-> trade_value,
         position_size_pct |-> IF portfolio_value > 0
                               THEN Frac(trade_value * 100, portfolio_value) ELSE FZero,
         risk_amount |-> IF Truthy(stop_loss_price)
                         THEN Abs(price - Val(stop_loss_price)) * quantity ELSE 0,
         portfolio_value |-> portfolio_value]

(* ---------------------------- TradeExecutor --------------------------- *)
\* a trade request: the arguments of place_order
Request(symbol, side, quantity, limit_price, stop_loss_price, take_profit_price) ==
    [symbol |-> symbol, side |-> side, quantity |-> quantity,
     order_type |-> IF IsNone(limit_price) THEN "market" ELSE "limit",
     limit_price |-> limit_price, stop_price |-> None,
     stop_loss_price |-> stop_loss_price, take_profit_price |-> take_profit_price,
     reasoning |-> "user"]

\* every request shape: what the statements about validate_trade and place_order range over
AllRequests ==
    { Request(s, d, q, l, sl, tp) :
        s \in Symbols, d \in Sides, q \in Quantities, l \in LimitPrices,
        sl \in StopLossPrices, tp \in TakeProfitPrices }

\* The requests the runs draw from, a part of AllRequests.  The first instrument is
\* bought in every lot size at the market or at a limit with a stop and a target, in one
\* lot with every other combination of exits, and with a quantity that is not positive;
\* it is sold in every quantity.  The second instrument is traded in one lot, so that
\* an account can hold two positions.
Requests ==
    { Request("AAA", BUY, q, l, Some(95), Some(110)) : q \in 1..MaxQty, l \in LimitPrices }
    \cup { Request("AAA", BUY, 1, None, sl, tp) :
              sl \in StopLossPrices, tp \in TakeProfitPrices }
    \cup { Request("AAA", BUY, q, Some(100), Some(95), None) : q \in Quantities }
    \cup { Request("AAA", SELL, q, Some(100), Some(95), None) : q \in Quantities }
    \cup { Request("AAA", SELL, 1, None, None, None) }
    \cup { Request("BBB", BUY, 1, Some(100), Some(95), None),
           Request("BBB", SELL, 1, Some(100), Some(95), None) }

\* the answers of the quote lookup that matter to a request: it is made only when the
\* request carries no limit or stop price
QuotesFor(req) ==
    IF Truthy(req.limit_price) \/ Truthy(req.stop_price) THEN {None} ELSE Quotes

\* the row _get_or_create_position inserts (lines 60-66), with the column defaults
NewPosition(now) ==
    [quantity |-> 0, average_cost |-> FZero, current_price |-> None,
     market_value |-> None, unrealized_pnl |-> FZero, unrealized_pnl_pct |-> FZero,
     realized_pnl |-> FZero, stop_loss_price |-> None, take_profit_price |-> None,
     is_open |-> FALSE, opened_at |-> Some(now), closed_at |-> None]

\* (price - average_cost) / average_cost * 100 if average_cost > 0 else 0
PnlPct(price, average_cost) ==
    IF FPos(average_cost)
    THEN FMul(FDiv(FSub(FInt(price), average_cost), average_cost), FInt(100))
    ELSE FZero

\* line 86 divides by the new quantity: ZeroDivisionError when it is 0
BuyDividesByZero(position, quantity) ==
    position.quantity # 0 /\ position.quantity + quantity = 0

\* a buy fill whose average leaves out the weight of the shares already held
_update_position_on_buy_Unweighted(position, quantity, price, now) ==
    LET p1 == IF position.quantity = 0
              THEN [position EXCEPT !.quantity = quantity,
                                    !.average_cost = FInt(price),
                                    !.is_open = TRUE,
                                    !.opened_at = Some(now)]
              ELSE [position EXCEPT !.quantity = position.quantity + quantity,
                                    !.average_cost =
                                        FDiv(FAdd(position.average_cost, FInt(quantity * price)),
                                             FInt(position.quantity + quantity))]
    IN  [p1 EXCEPT !.current_price = Some(price),
                   !.market_value = Some(p1.quantity * price)]

\* the position after a buy fill (not BuyDividesByZero)
_update_position_on_buy(position, quantity, price, now) ==
    LET p1 == IF position.quantity = 0
              THEN [position EXCEPT !.quantity = quantity,
                                    !.average_cost = FInt(price),
                                    !.is_open = TRUE,
                                    !.opened_at = Some(now)]
              ELSE LET total_cost == FAdd(FMul(FInt(position.quantity), position.average_cost),
                                          FInt(quantity * price))
                   IN  [position EXCEPT !.quantity = position.quantity + quantity,
                                        !.average_cost =
                                            FDiv(total_cost, FInt(position.quantity + quantity))]
    IN  [p1 EXCEPT !.current_price = Some(price),
                   !.market_value = Some(p1.quantity * price),
                   !.unrealized_pnl =
                       FMul(FSub(FInt(price), p1.average_cost), FInt(p1.quantity)),
                   !.unrealized_pnl_pct = PnlPct(price, p1.average_cost)]

\* a sell fill that takes the price of the sale as the new average cost
_update_position_on_sell_Reaverages(position, quantity, price, now) ==
    LET p1 == [position EXCEPT
                   !.realized_pnl =
                       FAdd(position.realized_pnl,
                            FMul(FSub(FInt(price), position.average_cost), FInt(quantity))),
                   !.quantity = position.quantity - quantity,
                   !.average_cost = FInt(price)]
    IN  IF p1.quantity = 0
        THEN [p1 EXCEPT !.is_open = FALSE,
                        !.closed_at = Some(now),
                        !.market_value = Some(0),
                        !.unrealized_pnl = FZero,
                        !.unrealized_pnl_pct = FZero]
        ELSE [p1 EXCEPT !.current_price = Some(price),
                        !.market_value = Some(p1.quantity * price),
                        !.unrealized_pnl =
                            FMul(FSub(FInt(price), p1.average_cost), FInt(p1.quantity)),
                        !.unrealized_pnl_pct = PnlPct(price, p1.average_cost)]

\* a sell fill that reprices the position and leaves it open whatever remains
_update_position_on_sell_StaysOpen(position, quantity, price, now) ==
    LET p1 == [position EXCEPT
                   !.realized_pnl =
                       FAdd(position.realized_pnl,
                            FMul(FSub(FInt(price), position.average_cost), FInt(quantity))),
                   !.quantity = position.quantity - quantity]
    IN  [p1 EXCEPT !.current_price = Some(price),
                   !.market_value = Some(p1.quantity * price),
                   !.unrealized_pnl =
                       FMul(FSub(FInt(price), p1.average_cost), FInt(p1.quantity)),
                   !.unrealized_pnl_pct = PnlPct(price, p1.average_cost)]

\* the position after a sell fill
_update_position_on_sell(position, quantity, price, now) ==
    LET p1 == [position EXCEPT
                   !.realized_pnl =
                       FAdd(position.realized_pnl,
                            FMul(FSub(FInt(price), position.average_cost), FInt(quantity))),
                   !.quantity = position.quantity - quantity]
    IN  IF p1.quantity = 0
        THEN [p1 EXCEPT !.is_open = FALSE,
                        !.closed_at = Some(now),
                        !.market_value = Some(0),
                        !.unrealized_pnl = FZero,
                        !.unrealized_pnl_pct = FZero]
        ELSE [p1 EXCEPT !.current_price = Some(price),
                        !.market_value = Some(p1.quantity * price),
                        !.unrealized_pnl =
                            FMul(FSub(FInt(price), p1.average_cost), FInt(p1.quantity)),
                        !.unrealized_pnl_pct = PnlPct(price, p1.average_cost)]

\* _get_or_create_position finds no open row and inserts one: the unique index
\* ix_positions_user_stock refuses the insert when a (closed) row exists
InsertViolatesUniqueIndex(db, symbol) ==
    IsNone(OpenPosition(db, symbol)) /\ ~IsNone(db.positions[symbol])

_get_or_create_position(db, symbol, now) ==
    IF ~IsNone(OpenPosition(db, symbol)) THEN Val(OpenPosition(db, symbol))
    ELSE NewPosition(now)

\* the fill of execute_paper_trade applied to the position it works on (lines 159-167)
ApplyFill(position, order, price, now) ==
    IF order.side = BUY
    THEN LET p1 == _update_position_on_buy(position, order.quantity, price, now)
             p2 == IF Truthy(order.stop_loss_price)
                   THEN [p1 EXCEPT !.stop_loss_price = order.stop_loss_price] ELSE p1
         IN  IF Truthy(order.take_profit_price)
             THEN [p2 EXCEPT !.take_profit_price = order.take_profit_price] ELSE p2
    ELSE _update_position_on_sell(position, order.quantity, price, now)

\* the execution record of lines 140-146
PaperExecution(order, price) ==
    [order_id |-> order.id, quantity |-> order.quantity, price |-> price, commission |-> 0]

\* a fill that records the quantity and the price and leaves the order pending
PaperFilled_StillPending(order, price, now) ==
    [order EXCEPT !.filled_quantity = order.quantity,
                  !.average_fill_price = Some(price),
                  !.filled_at = Some(now)]

\* a fill that marks the order filled and leaves its filled_quantity alone
PaperFilled_NoQuantity(order, price, now) ==
    [order EXCEPT !.average_fill_price = Some(price),
                  !.status = FILLED,
                  !.filled_at = Some(now)]

\* the order after lines 150-153
PaperFilled(order, price, now) ==
    [order EXCEPT !.filled_quantity = order.quantity,
                  !.average_fill_price = Some(price),
                  !.status = FILLED,
                  !.filled_at = Some(now)]

\* execute_paper_trade on an order that is flushed into db: [raised, db]
execute_paper_trade(db, order, price) ==
    LET now == order.id
        symbol == order.symbol
        position == _get_or_create_position(db, symbol, now)
    IN  IF InsertViolatesUniqueIndex(db, symbol)
        THEN [raised |-> TRUE, reason |-> "IntegrityError", db |-> db]
        ELSE IF order.side = BUY /\ BuyDividesByZero(position, order.quantity)
        THEN [raised |-> TRUE, reason |-> "ZeroDivisionError", db |-> db]
        ELSE [raised |-> FALSE, reason |-> OK,
              db |-> [db EXCEPT
                  !.executions = Append(db.executions, PaperExecution(order, price)),
                  !.orders = [db.orders EXCEPT ![order.id] = PaperFilled(order, price, now)],
                  !.positions = [db.positions EXCEPT
                      ![symbol] = Some(ApplyFill(position, order, price, now))]]]

\* lines 266-274: limit_price if limit_price else stop_price, else the quote; None = no price
ResolvePrice(req, quote) ==
    LET price == IF Truthy(req.limit_price) THEN req.limit_price ELSE req.stop_price
    IN  IF Truthy(price) THEN price
        ELSE IF Truthy(quote) THEN quote ELSE None

\* the TradeOrder of lines 287-302 (status and filled_quantity take the column defaults)
NewOrder(db, req, validation_result) ==
    [id |-> Len(db.orders) + 1,
     symbol |-> req.symbol, order_type |-> req.order_type, side |-> req.side,
     quantity |-> req.quantity, limit_price |-> req.limit_price,
     stop_price |-> req.stop_price, stop_loss_price |-> req.stop_loss_price,
     take_profit_price |-> req.take_profit_price,
     status |-> PENDING, broker_order_id |-> None,
     position_size_pct |-> validation_result.position_size_pct,
     risk_amount |-> validation_result.risk_amount,
     filled_quantity |-> 0, average_fill_price |-> None, filled_at |-> None,
     reasoning |-> req.reasoning,
     is_paper_trade |-> settings.paper_trading_enabled]

\* a place_order that adds the order before it validates the request and leaves it
\* behind when the validation raises
place_order_OrderFirst(db, req, quote) ==
    LET price == ResolvePrice(req, quote)
        validation_result ==
            validate_trade(db, req.symbol, req.side, req.quantity, Val(price),
                           req.stop_loss_price, req.take_profit_price)
        order == NewOrder(db, req, validation_result)
        db1 == [db EXCEPT !.stocks = db.stocks \cup {req.symbol},
                          !.orders = Append(db.orders, order)]
    IN  IF IsNone(price)
        THEN [raised |-> TRUE, reason |-> "no_price", db |-> db]
        ELSE IF ~validation_result.validated
        THEN [raised |-> TRUE, reason |-> validation_result.reason, db |-> db1]
        ELSE IF settings.paper_trading_enabled
        THEN LET r == execute_paper_trade(db1, order, Val(price))
             IN  IF r.raised THEN [raised |-> TRUE, reason |-> r.reason, db |-> db]
                 ELSE r
        ELSE [raised |-> FALSE, reason |-> OK, db |-> db1]

\* place_order run alone in one session on db: [raised, reason, db]; a raise leaves the
\* session uncommitted, so db is as before
place_order(db, req, quote) ==
    LET price == ResolvePrice(req, quote)
        validation_result ==
            validate_trade(db, req.symbol, req.side, req.quantity, Val(price),
                           req.stop_loss_price, req.take_profit_price)
        order == NewOrder(db, req, validation_result)
        db1 == [db EXCEPT !.stocks = db.stocks \cup {req.symbol},
                          !.orders = Append(db.orders, order)]
    IN  IF IsNone(price)
        THEN [raised |-> TRUE, reason |-> "no_price", db |-> db]
        ELSE IF ~validation_result.validated
        THEN [raised |-> TRUE, reason |-> validation_result.reason, db |-> db]
        ELSE IF settings.paper_trading_enabled
        THEN LET r == execute_paper_trade(db1, order, Val(price))
             IN  IF r.raised THEN [raised |-> TRUE, reason |-> r.reason, db |-> db]
                 ELSE r
        ELSE [raised |-> FALSE, reason |-> OK, db |-> db1]

\* what the brokerage call of lines 207-215 can do: answer with an order id, refuse the
\* order, or fail in transport (the brokerage may or may not have the order); and the two
\* raises of lines 184-193 before it
BrokerOutcomes == {"not_connected", "symbol_not_found", "accepted", "rejected", "timeout"}

\* a live dispatch that reports an accepted order as partly filled
execute_live_trade_Partial(order, outcome) ==
    IF outcome \in {"not_connected", "symbol_not_found"}
    THEN [raised |-> TRUE, order |-> order]
    ELSE IF outcome = "accepted"
    THEN [raised |-> FALSE,
          order |-> [order EXCEPT !.broker_order_id = Some(order.id),
                                  !.status = PARTIAL]]
    ELSE [raised |-> TRUE, order |-> [order EXCEPT !.status = REJECTED]]

\* execute_live_trade on one order: [raised, order]
execute_live_trade(order, outcome) ==
    IF outcome \in {"not_connected", "symbol_not_found"}
    THEN [raised |-> TRUE, order |-> order]
    ELSE IF outcome = "accepted"
    THEN [raised |-> FALSE,
          order |-> [order EXCEPT !.broker_order_id = Some(order.id),
                                  !.status = SUBMITTED]]
    ELSE [raised |-> TRUE, order |-> [order EXCEPT !.status = REJECTED]]

(* --------------------------- position monitor ------------------------- *)
\* the rows the query of lines 110-120 selects (the one user is active)
MonitoredSymbols(db) ==
    { s \in Symbols : ~IsNone(OpenPosition(db, s))
                      /\ ~IsNone(Val(OpenPosition(db, s)).stop_loss_price) }

\* the request of lines 156-162 and 183-189
ExitRequest(symbol, quantity, why) ==
    [symbol |-> symbol, side |-> SELL, quantity |-> quantity, order_type |-> "market",
     limit_price |-> None, stop_price |-> None, stop_loss_price |-> None,
     take_profit_price |-> None, reasoning |-> why]

\* which exit lines 149 and 174-177 trigger at current_price
Trigger(position, current_price) ==
    IF current_price <= Val(position.stop_loss_price) THEN "stop_loss"
    ELSE IF Truthy(position.take_profit_price)
            /\ current_price >= Val(position.take_profit_price) THEN "take_profit"
    ELSE "none"

\* lines 137-146
Repriced(position, current_price) ==
    [position EXCEPT !.current_price = Some(current_price),
                     !.market_value = Some(position.quantity * current_price),
                     !.unrealized_pnl =
                         FMul(FSub(FInt(current_price), position.average_cost),
                              FInt(position.quantity)),
                     !.unrealized_pnl_pct = PnlPct(current_price, position.average_cost)]

\* one iteration of the loop of lines 128-201 for a selected position: the db after it.
\* monitor_quote is the price line 131 fetches, order_quote the one place_order fetches
MonitorPosition(db, symbol, monitor_quote, order_quote) ==
    IF ~Truthy(monitor_quote) THEN db
    ELSE LET position == Val(db.positions[symbol])
             current_price == Val(monitor_quote)
             db1 == [db EXCEPT !.positions =
                        [db.positions EXCEPT ![symbol] = Some(Repriced(position, current_price))]]
             why == Trigger(position, current_price)
         IN  IF why = "none" THEN db1
             \* a raise of place_order is caught at line 200; db1 is committed at line 203
             ELSE place_order(db1, ExitRequest(symbol, position.quantity, why), order_quote).db

RECURSIVE MonitorLoop_StopsAtFailure(_, _, _, _)
\* a loop that ends the pass at the first position whose price lookup answers nothing
MonitorLoop_StopsAtFailure(db, todo, monitor_quotes, order_quotes) ==
    IF todo = <<>> THEN db
    ELSE IF ~Truthy(monitor_quotes[Head(todo)]) THEN db
    ELSE MonitorLoop_StopsAtFailure(
             MonitorPosition(db, Head(todo), monitor_quotes[Head(todo)],
                             order_quotes[Head(todo)]),
             Tail(todo), monitor_quotes, order_quotes)

RECURSIVE MonitorLoop(_, _, _, _)
MonitorLoop(db, todo, monitor_quotes, order_quotes) ==
    IF todo = <<>> THEN db
    ELSE MonitorLoop(MonitorPosition(db, Head(todo), monitor_quotes[Head(todo)],
                                     order_quotes[Head(todo)]),
                     Tail(todo), monitor_quotes, order_quotes)

\* the orders in which .all() may return a set of rows
Orderings(S) ==
    { q \in UNION { [1..n -> S] : n \in {Cardinality(S)} } :
        \A i, j \in 1..Len(q) : i # j => q[i] # q[j] }

\* monitor_stop_losses, one pass: the db it leaves
monitor_stop_losses(db, todo, monitor_quotes, order_quotes) ==
    MonitorLoop(db, todo, monitor_quotes, order_quotes)

(* ------------------------------ actions ------------------------------- *)
Sessions == {"s1", "s2"}
Idle == [pc |-> "idle"]

Init ==
    /\ stocks = {}
    /\ positions = [s \in Symbols |-> None]
    /\ orders = <<>>
    /\ executions = <<>>
    /\ settings = DefaultSettings
    /\ snapshot = None
    /\ sess = [s \in Sessions |-> Idle]

Commit(db) ==
    /\ stocks' = db.stocks
    /\ positions' = db.positions
    /\ orders' = db.orders
    /\ executions' = db.executions

\* the portfolio collaborator writes a newer snapshot
SnapshotArrives ==
    /\ \E c \in SnapshotChoices : snapshot' = Some(c)
    /\ UNCHANGED <<stocks, positions, orders, executions, settings, sess>>

\* PUT /settings: update_settings sets the fields given
SettingsUpdates ==
    [paper_trading_enabled : BOOLEAN, require_stop_loss : BOOLEAN,
     circuit_breaker_enabled : BOOLEAN]

UpdateSettings ==
    /\ \E u \in SettingsUpdates :
          settings' = [settings EXCEPT
                          !.paper_trading_enabled = u.paper_trading_enabled,
                          !.require_stop_loss = u.require_stop_loss,
                          !.circuit_breaker_enabled = u.circuit_breaker_enabled]
    /\ UNCHANGED <<stocks, positions, orders, executions, snapshot, sess>>

\* one place_order call, run alone from entry to commit
PlaceOrder ==
    /\ Len(orders) < MaxOrders
    /\ \E req \in Requests : \E quote \in QuotesFor(req) :
          LET r == place_order(DB, req, quote)
          IN  /\ ~r.raised
              /\ Commit(r.db)
    /\ UNCHANGED <<settings, snapshot, sess>>

\* the background task of lines 310-312 hands a pending live order to the brokerage
ExecuteLiveTrade ==
    /\ \E i \in 1..Len(orders), outcome \in BrokerOutcomes :
          /\ orders[i].status = PENDING
          /\ ~orders[i].is_paper_trade
          /\ LET r == execute_live_trade(orders[i], outcome)
             IN  orders' = [orders EXCEPT ![i] = r.order]
    /\ UNCHANGED <<stocks, positions, executions, settings, snapshot, sess>>

\* one pass of the position monitor, run alone
MonitorPass ==
    /\ MonitoredSymbols(DB) # {}
    /\ Len(orders) + Cardinality(MonitoredSymbols(DB)) <= MaxOrders
    /\ \E todo \in Orderings(MonitoredSymbols(DB)),
          monitor_quotes \in [Symbols -> Quotes], order_quotes \in [Symbols -> Quotes] :
          Commit(monitor_stop_losses(DB, todo, monitor_quotes, order_quotes))
    /\ UNCHANGED <<settings, snapshot, sess>>

Next ==
    \/ SnapshotArrives
    \/ UpdateSettings
    \/ PlaceOrder
    \/ ExecuteLiveTrade
    \/ MonitorPass

Spec == Init /\ [][Next]_vars

(* ------------------- place_order in concurrent sessions --------------- *)
\* Each place_order call runs in a session of its own (get_db, get_db_context) against
\* PostgreSQL at its default isolation, READ COMMITTED: a statement reads what is
\* committed when it runs, and the session's writes show at its commit.  The account
\* trades on paper with the default settings.
MaxConcOrders == 3

\* the requests the concurrent sessions draw from: buys at a limit and at the market,
\* sells of part and of all of what one buy can hold
ConcRequests ==
    { Request("AAA", BUY, 1, Some(100), Some(95), None),
      Request("AAA", BUY, 2, None, Some(95), None),
      Request("AAA", SELL, 1, Some(100), Some(95), None),
      Request("AAA", SELL, 2, Some(100), Some(95), None) }

InFlight == { s \in Sessions : sess[s].pc # "idle" }

\* a validation that sets the value of the trade aside in the snapshot's cash
Begin_ReservesCash(s) ==
    /\ sess[s].pc = "idle"
    /\ Len(orders) + Cardinality(InFlight) < MaxConcOrders
    /\ ~IsNone(snapshot)
    /\ \E req \in ConcRequests : \E quote \in QuotesFor(req) :
          LET price == ResolvePrice(req, quote)
              validation_result ==
                  validate_trade(DB, req.symbol, req.side, req.quantity, Val(price),
                                 req.stop_loss_price, req.take_profit_price)
          IN  /\ ~IsNone(price)
              /\ validation_result.validated
              /\ sess' = [sess EXCEPT ![s] =
                    [pc |-> "validated", req |-> req, price |-> Val(price),
                     validation_result |-> validation_result,
                     position |-> IF req.side = SELL THEN OpenPosition(DB, req.symbol)
                                  ELSE None,
                     is_new |-> FALSE]]
              /\ snapshot' = Some([Val(snapshot) EXCEPT
                                      !.cash_balance = @ - validation_result.trade_value])
    /\ UNCHANGED <<stocks, positions, orders, executions, settings>>

\* lines 266-284: the price is resolved and the request validated against the committed
\* rows; a raise ends the call with nothing written.  For a Sell, validate_position_size
\* loads the position row into the session (risk_manager.py:94-103)
Begin(s) ==
    /\ sess[s].pc = "idle"
    /\ Len(orders) + Cardinality(InFlight) < MaxConcOrders
    /\ \E req \in ConcRequests : \E quote \in QuotesFor(req) :
          LET price == ResolvePrice(req, quote)
              validation_result ==
                  validate_trade(DB, req.symbol, req.side, req.quantity, Val(price),
                                 req.stop_loss_price, req.take_profit_price)
          IN  /\ ~IsNone(price)
              /\ validation_result.validated
              /\ sess' = [sess EXCEPT ![s] =
                    [pc |-> "validated", req |-> req, price |-> Val(price),
                     validation_result |-> validation_result,
                     position |-> IF req.side = SELL THEN OpenPosition(DB, req.symbol)
                                  ELSE None,
                     is_new |-> FALSE]]
    /\ UNCHANGED <<stocks, positions, orders, executions, settings, snapshot>>

\* another session has inserted a position row for the symbol and not committed yet
InsertPending(s, symbol) ==
    \E o \in Sessions \ {s} :
        sess[o].pc = "loaded" /\ sess[o].is_new /\ sess[o].req.symbol = symbol

\* lines 287-304 and 140-157: the order is flushed and _get_or_create_position runs its
\* query.  A row the session already holds comes back as the session holds it (the
\* identity map keeps the attributes loaded before); no open row makes the session
\* insert one, which waits while another session's insert for the key is uncommitted
Load(s) ==
    /\ sess[s].pc = "validated"
    /\ LET symbol == sess[s].req.symbol
           row == OpenPosition(DB, symbol)
       IN  IF ~IsNone(row)
           THEN sess' = [sess EXCEPT ![s].pc = "loaded",
                                     ![s].position =
                                         IF IsNone(sess[s].position) THEN row
                                         ELSE sess[s].position]
           ELSE /\ ~InsertViolatesUniqueIndex(DB, symbol)
                /\ sess' = [sess EXCEPT ![s].pc = IF InsertPending(s, symbol)
                                                  THEN "blocked" ELSE "loaded",
                                        ![s].position = None,
                                        ![s].is_new = TRUE]
    /\ UNCHANGED <<stocks, positions, orders, executions, settings, snapshot>>

\* the insert of lines 67-68 meets a committed row of the key: IntegrityError, and the
\* session is rolled back with nothing written
LoadFails(s) ==
    /\ sess[s].pc \in {"validated", "blocked"}
    /\ InsertViolatesUniqueIndex(DB, sess[s].req.symbol)
    /\ sess' = [sess EXCEPT ![s] = Idle]
    /\ UNCHANGED <<stocks, positions, orders, executions, settings, snapshot>>

\* the UPDATE a flush emits for a loaded row sets the columns the session changed and
\* leaves the other columns as committed
FlushPosition(committed, loaded, updated) ==
    [f \in DOMAIN updated |-> IF updated[f] # loaded[f] THEN updated[f] ELSE committed[f]]

\* the order a session commits: it is numbered in the order of the commits
SessionOrder(s) ==
    NewOrder(DB, sess[s].req, sess[s].validation_result)

\* the position row a session works on
SessionPosition(s) ==
    IF sess[s].is_new THEN NewPosition(Len(orders) + 1) ELSE Val(sess[s].position)

\* lines 159-169: the fill is applied to the session's position and the commit writes
\* the order, the execution and the position together
CommitSession(s) ==
    /\ sess[s].pc = "loaded"
    /\ LET order == SessionOrder(s)
           price == sess[s].price
           symbol == order.symbol
           loaded == SessionPosition(s)
           updated == ApplyFill(loaded, order, price, order.id)
       IN  /\ stocks' = stocks \cup {symbol}
           /\ orders' = Append(orders, PaperFilled(order, price, order.id))
           /\ executions' = Append(executions, PaperExecution(order, price))
           /\ positions' = [positions EXCEPT ![symbol] =
                 IF sess[s].is_new THEN Some(updated)
                 ELSE Some(FlushPosition(Val(positions[symbol]), loaded, updated))]
    /\ sess' = [sess EXCEPT ![s] = Idle]
    /\ UNCHANGED <<settings, snapshot>>

NextConc ==
    \/ SnapshotArrives
    \/ \E s \in Sessions : Begin(s)
    \/ \E s \in Sessions : Load(s)
    \/ \E s \in Sessions : LoadFails(s)
    \/ \E s \in Sessions : CommitSession(s)

SpecConc == Init /\ [][NextConc]_vars

(* ---------------------- place_order on sized requests ------------------ *)
\* a portfolio of 100,000 with 50,000 in cash, counted in half dollars so that a stop
\* at 142.50 is a whole number
ExampleSnapshot ==
    [is_today |-> TRUE, total_value |-> 200000, cash_balance |-> 100000, daily_pnl_pct |-> 0]

\* a portfolio of 2000 that is nearly all invested: 100 of the cash is above the reserve
LowCashSnapshot ==
    [is_today |-> TRUE, total_value |-> 2000, cash_balance |-> 300, daily_pnl_pct |-> 0]

\* the latest snapshot is of an earlier day, one that lost 6 percent
StaleSnapshot ==
    [is_today |-> FALSE, total_value |-> 2000, cash_balance |-> 1000, daily_pnl_pct |-> 0 - 6]

\* Buy 100 shares at 150 with the stop at 142.50, in half dollars
ExampleRequest == Request("AAA", BUY, 100, Some(300), Some(285), None)

\* the example, the same lot without a stop, a lot of 150 shares (22.5 percent of the
\* example's portfolio), the sale of the lot, and a market Buy of one share
SizingRequests ==
    { Request("AAA", BUY, q, Some(300), sl, None) : q \in {100, 150}, sl \in {None, Some(285)} }
    \cup { Request("AAA", SELL, 100, Some(300), Some(285), None) }
    \cup { Request("BBB", BUY, 1, None, Some(95), tp) : tp \in TakeProfitPrices }

\* the account as place_order may find it: any of the settings a user can save, and the
\* latest snapshot one of the small portfolios, the example's, the one short of cash or
\* one of an earlier day
InitSizing ==
    /\ stocks = {}
    /\ positions = [s \in Symbols |-> None]
    /\ orders = <<>>
    /\ executions = <<>>
    /\ \E u \in SettingsUpdates :
          settings = [DefaultSettings EXCEPT
                         !.paper_trading_enabled = u.paper_trading_enabled,
                         !.require_stop_loss = u.require_stop_loss,
                         !.circuit_breaker_enabled = u.circuit_breaker_enabled]
    /\ snapshot \in {None} \cup {Some(c) : c \in SnapshotChoices
                                                 \cup {ExampleSnapshot, LowCashSnapshot,
                                                       StaleSnapshot}}
    /\ sess = [s \in Sessions |-> Idle]

\* one place_order call on a sized request, run alone from entry to commit
PlaceSized ==
    /\ Len(orders) < MaxOrders
    /\ \E req \in SizingRequests : \E quote \in QuotesFor(req) :
          LET r == place_order(DB, req, quote)
          IN  /\ ~r.raised
              /\ Commit(r.db)
    /\ UNCHANGED <<settings, snapshot, sess>>

NextSizing == PlaceSized

SpecSizing == InitSizing /\ [][NextSizing]_vars

(* ------------------ place_order under a low position limit ------------- *)
\* the user has saved a limit of one or two open positions before trading starts
InitMaxPositions ==
    /\ stocks = {}
    /\ positions = [s \in Symbols |-> None]
    /\ orders = <<>>
    /\ executions = <<>>
    /\ \E limit \in {1, 2} :
          settings = [DefaultSettings EXCEPT !.max_open_positions = limit]
    /\ snapshot = None
    /\ sess = [s \in Sessions |-> Idle]

\* place_order calls one at a time, the settings left alone
NextMaxPositions ==
    \/ SnapshotArrives
    \/ PlaceOrder

SpecMaxPositions == InitMaxPositions /\ [][NextMaxPositions]_vars

(* --------------------- QuestradeClient._make_request ------------------- *)
\* the methods the client's operations pass (cancel_order passes DELETE)
Methods == {"GET", "POST", "DELETE"}

\* what one HTTP call can come to: a 2xx answer with a JSON body, a 2xx answer whose body
\* is not JSON, a 401, another error status, or no answer (transport error, timeout)
HttpAnswers == {"200", "200_not_json", "401", "500", "timeout"}

\* what the token endpoint can come to
RefreshAnswers == {"200", "400", "timeout"}

\* lines 30-39: the first HTTP call is made for GET and POST; another method raises
\* ValueError, which the handler of line 43 does not catch
FirstAttempt(method) ==
    [pc |-> IF method \in {"GET", "POST"} THEN "sent" ELSE "raised",
     method |-> method,
     attempts |-> IF method \in {"GET", "POST"} THEN 1 ELSE 0,
     refreshes |-> 0,
     answers |-> <<>>]

\* a handler that takes every 401 to the token refresh
OnAnswer_RefreshesAgain(call, answer) ==
    LET c == [call EXCEPT !.answers = Append(@, answer)]
    IN  IF answer = "200" THEN [c EXCEPT !.pc = "returned"]
        ELSE IF answer = "401" THEN [c EXCEPT !.pc = "refreshing"]
        ELSE [c EXCEPT !.pc = "raised"]

\* lines 41-44 and 53-55: raise_for_status and response.json() on the answer of an
\* attempt.  A 401 to the first attempt goes to the refresh; the second attempt runs
\* inside the handler, where whatever it raises leaves the function
OnAnswer(call, answer) ==
    LET c == [call EXCEPT !.answers = Append(@, answer)]
    IN  IF answer = "200" THEN [c EXCEPT !.pc = "returned"]
        ELSE IF answer = "401" /\ call.attempts = 1 THEN [c EXCEPT !.pc = "refreshing"]
        ELSE [c EXCEPT !.pc = "raised"]

\* lines 46-52: refresh_access_token (57-81) raises on a failed answer; after it the
\* request is sent again with the new token
OnRefresh(call, answer) ==
    IF answer = "200"
    THEN [call EXCEPT !.pc = "sent", !.attempts = @ + 1, !.refreshes = @ + 1]
    ELSE [call EXCEPT !.pc = "raised", !.refreshes = @ + 1]

MakeRequest(s) ==
    /\ sess[s].pc = "idle"
    /\ \E method \in Methods : sess' = [sess EXCEPT ![s] = FirstAttempt(method)]
    /\ UNCHANGED <<stocks, positions, orders, executions, settings, snapshot>>

HttpAnswer(s) ==
    /\ sess[s].pc = "sent"
    /\ \E answer \in HttpAnswers : sess' = [sess EXCEPT ![s] = OnAnswer(sess[s], answer)]
    /\ UNCHANGED <<stocks, positions, orders, executions, settings, snapshot>>

TokenRefresh(s) ==
    /\ sess[s].pc = "refreshing"
    /\ \E answer \in RefreshAnswers : sess' = [sess EXCEPT ![s] = OnRefresh(sess[s], answer)]
    /\ UNCHANGED <<stocks, positions, orders, executions, settings, snapshot>>

\* the caller has the result or the exception; the client can be called again
RequestOver(s) ==
    /\ sess[s].pc \in {"returned", "raised"}
    /\ sess' = [sess EXCEPT ![s] = Idle]
    /\ UNCHANGED <<stocks, positions, orders, executions, settings, snapshot>>

NextRequest ==
    \/ \E s \in Sessions : MakeRequest(s)
    \/ \E s \in Sessions : HttpAnswer(s)
    \/ \E s \in Sessions : TokenRefresh(s)
    \/ \E s \in Sessions : RequestOver(s)

SpecRequest == Init /\ [][NextRequest]_vars

(* ------------------------- sums over the tables ----------------------- *)
RECURSIVE SumOf(_, _)
\* the sum of f[i] over the finite set I
SumOf(f, I) ==
    IF I = {} THEN 0
    ELSE LET i == CHOOSE x \in I : TRUE IN f[i] + SumOf(f, I \ {i})

\* ids of the filled orders of a side for a symbol, placed after order id `since`
FilledOrders(symbol, side, since) ==
    { i \in 1..Len(orders) : /\ orders[i].symbol = symbol
                             /\ orders[i].side = side
                             /\ orders[i].status = FILLED
                             /\ i > since }

FilledQty(symbol, side, since) ==
    SumOf([i \in 1..Len(orders) |-> orders[i].filled_quantity],
          FilledOrders(symbol, side, since))

\* sum of quantity x fill price over the filled buys of a symbol
FilledBuyCost(symbol) ==
    SumOf([i \in 1..Len(orders) |->
              IF orders[i].status = FILLED
              THEN orders[i].filled_quantity * Val(orders[i].average_fill_price) ELSE 0],
          FilledOrders(symbol, BUY, 0))

\* the executions of an order
ExecutionsOf(i) == { k \in 1..Len(executions) : executions[k].order_id = i }

\* the id of the order whose fill last closed the position, 0 when it never closed
LastClosed(symbol) ==
    IF IsNone(positions[symbol]) \/ IsNone(Val(positions[symbol]).closed_at) THEN 0
    ELSE Val(Val(positions[symbol]).closed_at)

(* ----------------------------- properties ----------------------------- *)

\* C1: in paper mode, after place_order calls run one at a time, every position's
\* quantity is the filled Buy quantity minus the filled Sell quantity since the position
\* was last closed, and the quantity is never negative.
C1_Conservation ==
    \A s \in Symbols :
        ~IsNone(positions[s]) =>
            /\ Val(positions[s]).quantity =
                   FilledQty(s, BUY, LastClosed(s)) - FilledQty(s, SELL, LastClosed(s))
            /\ Val(positions[s]).quantity >= 0

\* the equation of C1 alone (it holds for every integer quantity)
C1_NetOfFills ==
    \A s \in Symbols :
        ~IsNone(positions[s]) =>
            Val(positions[s]).quantity =
                FilledQty(s, BUY, LastClosed(s)) - FilledQty(s, SELL, LastClosed(s))

\* C2: a position built by buy fills alone from quantity 0 has
\* quantity x average_cost = sum of qty_i x price_i and quantity = sum of qty_i, so that
\* average_cost = sum(qty_i x price_i) / sum(qty_i) whenever the quantity is not 0.
C2_Averaging ==
    \A s \in Symbols :
        (~IsNone(positions[s]) /\ FilledOrders(s, SELL, 0) = {}) =>
            LET position == Val(positions[s])
            IN  /\ position.quantity = FilledQty(s, BUY, 0)
                /\ FMul(FInt(position.quantity), position.average_cost)
                       = FInt(FilledBuyCost(s))
                /\ position.quantity # 0 =>
                       position.average_cost = Frac(FilledBuyCost(s), FilledQty(s, BUY, 0))

\* two buy fills at different prices: the average is a proper fraction
C2_Witness ==
    \E s \in Symbols :
        /\ ~IsNone(positions[s])
        /\ FilledOrders(s, SELL, 0) = {}
        /\ Cardinality(FilledOrders(s, BUY, 0)) = 2
        /\ Val(positions[s]).average_cost[2] = 3

\* C3: for every order, filled_quantity is the sum of the quantities of its executions
\* and average_fill_price x that sum is the sum of quantity x price over them; an order
\* without executions has filled_quantity 0.
C3_FillReconciliation ==
    \A i \in 1..Len(orders) :
        LET ex == ExecutionsOf(i)
            qty == SumOf([k \in 1..Len(executions) |-> executions[k].quantity], ex)
            cost == SumOf([k \in 1..Len(executions) |->
                              executions[k].quantity * executions[k].price], ex)
        IN  /\ orders[i].filled_quantity = qty
            /\ ex = {} => orders[i].filled_quantity = 0 /\ IsNone(orders[i].average_fill_price)
            /\ ex # {} => /\ ~IsNone(orders[i].average_fill_price)
                          /\ Val(orders[i].average_fill_price) * qty = cost

\* a filled order of two shares with its execution, beside an order without executions
C3_Witness ==
    /\ \E i \in 1..Len(orders) : ExecutionsOf(i) # {} /\ orders[i].filled_quantity = 2
    /\ \E i \in 1..Len(orders) : ExecutionsOf(i) = {}

\* the circuit breaker of check_circuit_breaker is tripped
BreakerTripped ==
    /\ settings.circuit_breaker_enabled
    /\ _get_daily_pnl < 0 - settings.daily_loss_limit_pct

\* the first failure among the checks of validate_trade other than the circuit breaker
OtherChecks(db, req, price) ==
    FirstFailure(<<
        check_max_positions(db, req.side),
        validate_position_size(db, req.symbol, req.quantity, price, req.side),
        validate_cash_available(req.quantity, price, req.side),
        validate_stop_loss(req.stop_loss_price, price),
        validate_risk_reward(price, req.stop_loss_price, req.take_profit_price) >>)

\* C4: while the circuit breaker is tripped, validate_trade rejects every Buy with the
\* circuit-breaker reason and accepts every Sell that passes every other check (requests
\* for one share or more).
C4_BreakerBlocksBuysOnly ==
    BreakerTripped =>
        \A req \in AllRequests, quote \in Quotes :
            LET price == ResolvePrice(req, quote)
                v == validate_trade(DB, req.symbol, req.side, req.quantity, Val(price),
                                    req.stop_loss_price, req.take_profit_price)
            IN  (~IsNone(price) /\ req.quantity > 0) =>
                    /\ req.side = BUY => (~v.validated /\ v.reason = "circuit_breaker")
                    /\ (req.side = SELL /\ OtherChecks(DB, req, Val(price)) = OK)
                           => v.validated

\* C5: a monitor pass that fetches, for a selected position, a price at or below its stop
\* or at or above its target places a market Sell for the full open quantity; in paper
\* mode the order is Filled and the position closed when the pass ends, whatever the
\* settings and the snapshot are.  (Both quote lookups answer; the position holds shares.)
C5_MonitorExits ==
    \A todo \in Orderings(MonitoredSymbols(DB)) :
    \A monitor_quotes \in [Symbols -> Quotes] :
    \A order_quotes \in [Symbols -> Quotes \ {None}] :
        LET after == monitor_stop_losses(DB, todo, monitor_quotes, order_quotes)
        IN  \A s \in MonitoredSymbols(DB) :
                ( /\ Val(positions[s]).quantity > 0
                  /\ Truthy(monitor_quotes[s])
                  /\ Trigger(Val(positions[s]), Val(monitor_quotes[s])) # "none" ) =>
                    /\ \E i \in (Len(orders) + 1)..Len(after.orders) :
                          /\ after.orders[i].symbol = s
                          /\ after.orders[i].side = SELL
                          /\ after.orders[i].order_type = "market"
                          /\ after.orders[i].quantity = Val(positions[s]).quantity
                          /\ after.orders[i].is_paper_trade => after.orders[i].status = FILLED
                    /\ settings.paper_trading_enabled => ~Val(after.positions[s]).is_open

\* the status changes of the order state machine
Transitions ==
    { <<PENDING, SUBMITTED>>, <<PENDING, FILLED>>, <<PENDING, REJECTED>>,
      <<SUBMITTED, REJECTED>>, <<SUBMITTED, PARTIAL>>, <<SUBMITTED, FILLED>>,
      <<PARTIAL, FILLED>>, <<PENDING, CANCELLED>>, <<SUBMITTED, CANCELLED>> }

C7_LiveDispatched ==
    \A i \in 1..Len(orders) : ~orders[i].is_paper_trade => orders[i].status # PENDING

RECURSIVE SerialBuys(_, _)
\* the position the buy fills of the orders ids leave, applied one after another
SerialBuys(position, ids) ==
    IF ids = <<>> THEN position
    ELSE LET o == orders[Head(ids)]
         IN  SerialBuys(_update_position_on_buy(position, o.filled_quantity,
                                                Val(o.average_fill_price), o.id),
                        Tail(ids))

\* C8: a position that concurrent paper buys have built (no sell was filled) has the
\* quantity and the average_cost that its filled buys give when they are applied one
\* after another in some order.
C8_BuysSerializable ==
    \A s \in Symbols :
        (~IsNone(positions[s]) /\ FilledOrders(s, SELL, 0) = {}) =>
            \E ids \in Orderings(FilledOrders(s, BUY, 0)) :
                LET serial == SerialBuys(NewPosition(0), ids)
                IN  /\ Val(positions[s]).quantity = serial.quantity
                    /\ Val(positions[s]).average_cost = serial.average_cost

\* the committed quantity of a symbol's position, 0 without a row
HeldQuantity(symbol) ==
    IF IsNone(positions[symbol]) THEN 0 ELSE Val(positions[symbol]).quantity

\* C9: no position's quantity goes below 0, and a session that comes to fill a Sell for
\* more than the position holds when the fill is written ends without changing the
\* position or recording the order.
C9_SellNeverOverdraws ==
    [][ /\ \A symbol \in Symbols : HeldQuantity(symbol)' >= 0
        /\ \A s \in Sessions :
              ( /\ sess[s].pc = "loaded"
                /\ sess'[s].pc = "idle"
                /\ sess[s].req.side = SELL
                /\ sess[s].req.quantity > HeldQuantity(sess[s].req.symbol) ) =>
                    /\ positions' = positions
                    /\ orders' = orders
                    /\ executions' = executions ]_vars

\* every committed paper order is Filled and has exactly one execution: for the whole
\* quantity, at the price place_order resolved (the limit price, else a quote), without
\* commission
PaperOrdersFilled ==
    \A i \in 1..Len(orders) :
        orders[i].is_paper_trade =>
            /\ orders[i].status = FILLED
            /\ orders[i].filled_quantity = orders[i].quantity
            /\ Cardinality(ExecutionsOf(i)) = 1
            /\ \A k \in ExecutionsOf(i) :
                  /\ executions[k].quantity = orders[i].quantity
                  /\ executions[k].commission = 0
                  /\ Some(executions[k].price) = orders[i].average_fill_price
                  /\ IF Truthy(orders[i].limit_price)
                     THEN executions[k].price = Val(orders[i].limit_price)
                     ELSE Some(executions[k].price) \in Quotes

\* a step that writes an order, an execution or a position is the commit of one session:
\* it adds that session's order and its one execution at the session's price, and writes
\* the position as the session's fill leaves the row the session worked on
CommitsTogether ==
    (orders' # orders \/ executions' # executions \/ positions' # positions) =>
        \E s \in Sessions :
            LET req == sess[s].req
                held == IF sess[s].is_new THEN 0 ELSE Val(sess[s].position).quantity
            IN  /\ sess[s].pc = "loaded" /\ sess'[s].pc = "idle"
                /\ Len(orders') = Len(orders) + 1
                /\ Len(executions') = Len(executions) + 1
                /\ orders'[Len(orders')].status = FILLED
                /\ executions'[Len(executions')].order_id = Len(orders')
                /\ executions'[Len(executions')].price = sess[s].price
                /\ ~IsNone(positions'[req.symbol])
                /\ Val(positions'[req.symbol]).quantity =
                       IF req.side = BUY THEN held + req.quantity ELSE held - req.quantity

\* C10: on paper an accepted order shows committed only as Filled, with its single
\* execution (order quantity, resolved price, commission 0), and the step that commits
\* it commits the execution and the position update with it.
C10_PaperFillAtomic ==
    /\ []PaperOrdersFilled
    /\ [][CommitsTogether]_vars

\* a market order committed as filled at its quote while another session has flushed
\* its own order and not committed
C10_Witness ==
    /\ \E i \in 1..Len(orders) :
          /\ orders[i].status = FILLED
          /\ orders[i].order_type = "market"
          /\ ExecutionsOf(i) # {}
    /\ \E s \in Sessions : sess[s].pc = "loaded"

\* C11: a place_order call that finds no price, or whose request validate_trade rejects,
\* raises, and leaves no order and no execution and every position as it was.
C11_FailedOrderWritesNothing ==
    \A req \in Requests : \A quote \in QuotesFor(req) :
        LET price == ResolvePrice(req, quote)
            r == place_order(DB, req, quote)
        IN  ( \/ IsNone(price)
              \/ ~validate_trade(DB, req.symbol, req.side, req.quantity, Val(price),
                                 req.stop_loss_price, req.take_profit_price).validated ) =>
                /\ r.raised
                /\ r.reason # OK
                /\ r.db.orders = orders
                /\ r.db.executions = executions
                /\ r.db.positions = positions

\* a position is held, a market request finds no quote and a Sell asks for more shares
\* than are held
C11_Witness ==
    /\ ~IsNone(OpenPosition(DB, "AAA"))
    /\ \E req \in Requests : place_order(DB, req, None).reason = "no_price"
    /\ \E req \in Requests : \E quote \in QuotesFor(req) :
          place_order(DB, req, quote).reason = "insufficient_shares"

\* the rejections each check of validate_trade can raise, in the order of the checks:
\* circuit breaker, max positions, position sizing or sell-ability, cash, stop-loss,
\* risk/reward
CheckReasons ==
    << {"circuit_breaker"},
       {"max_positions_reached"},
       {"no_open_position", "insufficient_shares", "portfolio_value_zero",
        "position_size_exceeds_limit"},
       {"insufficient_cash"},
       {"stop_loss_required", "stop_loss_too_tight", "stop_loss_too_wide"},
       {"risk_zero", "risk_reward_too_low"} >>

\* what each check answers to a request when it is run by itself
ChecksAlone(db, req, price) ==
    << check_circuit_breaker,
       check_max_positions(db, req.side),
       validate_position_size(db, req.symbol, req.quantity, price, req.side),
       validate_cash_available(req.quantity, price, req.side),
       validate_stop_loss(req.stop_loss_price, price),
       validate_risk_reward(price, req.stop_loss_price, req.take_profit_price) >>

OrdersOf(db, symbol) ==
    { i \in 1..Len(db.orders) : db.orders[i].symbol = symbol }

\* what a monitor pass can do to a position, apart from the times it records
Outcome(db, symbol) ==
    LET position == Val(db.positions[symbol])
    IN  [quantity |-> position.quantity, is_open |-> position.is_open,
         current_price |-> position.current_price,
         market_value |-> position.market_value,
         realized_pnl |-> position.realized_pnl,
         orders |-> Cardinality(OrdersOf(db, symbol))]

\* C13: in a monitor pass over two positions each position comes out as it does when
\* it is the only one evaluated, whatever happens to the other one (no price, a raise of
\* its exit order, an exit placed) and in whichever order the rows come.
C13_FailuresStayLocal ==
    Cardinality(MonitoredSymbols(DB)) = 2 =>
        \A todo \in Orderings(MonitoredSymbols(DB)) :
        \A monitor_quotes \in [Symbols -> Quotes] :
        \A order_quotes \in [Symbols -> Quotes] :
            LET after == monitor_stop_losses(DB, todo, monitor_quotes, order_quotes)
            IN  \A s \in MonitoredSymbols(DB) :
                    Outcome(after, s) =
                        Outcome(MonitorPosition(DB, s, monitor_quotes[s], order_quotes[s]), s)

\* two positions are monitored; the price lookup fails for the one that comes first and
\* the exit of the other one is placed
C13_Witness ==
    /\ Cardinality(MonitoredSymbols(DB)) = 2
    /\ \E todo \in Orderings(MonitoredSymbols(DB)) :
       \E monitor_quotes \in [Symbols -> Quotes] :
       \E order_quotes \in [Symbols -> Quotes] :
          /\ IsNone(monitor_quotes[todo[1]])
          /\ Len(monitor_stop_losses(DB, todo, monitor_quotes, order_quotes).orders)
                 > Len(orders)

\* C14: a monitor pass evaluates every open position that carries a stop_loss_price or
\* a take_profit_price; a position with a target and no stop is sold when the price
\* fetched is at or above the target (paper mode, settings that let the exit pass).
C14_MonitorCoversTargets ==
    \A s \in Symbols :
        LET position == Val(positions[s])
        IN  ( /\ ~IsNone(OpenPosition(DB, s))
              /\ position.quantity > 0
              /\ ~IsNone(position.stop_loss_price) \/ ~IsNone(position.take_profit_price) ) =>
                /\ s \in MonitoredSymbols(DB)
                /\ ( /\ IsNone(position.stop_loss_price)
                     /\ settings.paper_trading_enabled
                     /\ ~settings.require_stop_loss
                     /\ ~BreakerTripped ) =>
                       \A todo \in Orderings(MonitoredSymbols(DB)) :
                           LET at_target == [x \in Symbols |-> position.take_profit_price]
                               after == monitor_stop_losses(DB, todo, at_target, at_target)
                           IN  ~Val(after.positions[s]).is_open

\* the Sell requests of every symbol and quantity, with and without a stop
SellRequests ==
    { Request(s, SELL, q, Some(100), sl, None) :
        s \in Symbols, q \in Quantities, sl \in StopLossPrices }

\* validate_trade rejects a Sell without an open position or for more than is held, the
\* sell-ability check passes a Sell for at most what is held, and a rejected Sell leaves
\* the positions as they are
SellAbility ==
    \A req \in SellRequests :
        LET row == OpenPosition(DB, req.symbol)
            check == validate_position_size(DB, req.symbol, req.quantity, 100, SELL)
        IN  /\ IsNone(row) => check = "no_open_position"
            /\ (~IsNone(row) /\ Val(row).quantity < req.quantity)
                   => check = "insufficient_shares"
            /\ (~IsNone(row) /\ req.quantity <= Val(row).quantity) => check = OK
            /\ check # OK =>
                   /\ ~validate_trade(DB, req.symbol, SELL, req.quantity, 100,
                                      req.stop_loss_price, None).validated
                   /\ place_order(DB, req, None).raised
                   /\ place_order(DB, req, None).db.positions = positions

\* a step that fills a Sell does not take a holding below 0
NoShortSale ==
    \A s \in Symbols : \A i \in (Len(orders) + 1)..Len(orders') :
        ( /\ orders'[i].symbol = s
          /\ orders'[i].side = SELL
          /\ orders'[i].status = FILLED
          /\ HeldQuantity(s) >= 0 ) =>
            HeldQuantity(s)' >= 0

\* C15: validate_trade rejects a Sell when there is no open position for the instrument
\* or the position holds less than the quantity asked, does not reject on this check a
\* Sell for at most the held quantity, and a rejected Sell changes no position: no Sell
\* makes a holding negative.
C15_SellAbility ==
    /\ []SellAbility
    /\ [][NoShortSale]_vars

\* part of a holding has been sold: one share is left, which a Sell of two exceeds
C15_Witness ==
    \E s \in Symbols :
        /\ ~IsNone(OpenPosition(DB, s))
        /\ Val(positions[s]).quantity = 1
        /\ FilledOrders(s, SELL, 0) # {}

\* the example is accepted with trade_value 15,000, 15 percent of the portfolio, 750 at
\* risk and a portfolio value of 100,000
ExampleAccepted ==
    ( /\ snapshot = Some(ExampleSnapshot)
      /\ settings.position_size_pct = 20
      /\ settings.min_cash_reserve_pct = 10
      /\ settings.require_stop_loss ) =>
        LET v == validate_trade(DB, "AAA", BUY, 100, 300, Some(285), None)
        IN  /\ v.validated
            /\ v.trade_value = 30000
            /\ v.position_size_pct = FInt(15)
            /\ v.risk_amount = 1500
            /\ v.portfolio_value = 200000

\* what an accepted request returns, and the columns of the order that take it
MetricsOfAccepted(stored) ==
    \A req \in SizingRequests : \A quote \in QuotesFor(req) :
        LET price == ResolvePrice(req, quote)
            r == place_order(DB, req, quote)
        IN  (~IsNone(price) /\ ~r.raised) =>
                LET v == validate_trade(DB, req.symbol, req.side, req.quantity, Val(price),
                                        req.stop_loss_price, req.take_profit_price)
                    order == r.db.orders[Len(r.db.orders)]
                IN  /\ v.validated
                    /\ v.trade_value = req.quantity * Val(price)
                    /\ v.risk_amount =
                           IF Truthy(req.stop_loss_price)
                           THEN Abs(Val(price) - Val(req.stop_loss_price)) * req.quantity
                           ELSE 0
                    /\ \A m \in stored : m \in DOMAIN order /\ order[m] = v[m]

\* the example holds, and the order keeps the share of the portfolio and the amount at
\* risk that validate_trade returned
OrderMetrics ==
    /\ ExampleAccepted
    /\ MetricsOfAccepted({"position_size_pct", "risk_amount"})

\* C16: with position_size_pct 20, min_cash_reserve_pct 10, require_stop_loss on and a
\* snapshot of 100,000 with 50,000 in cash, a Buy of 100 at 150 with the stop at 142.50
\* is accepted with trade_value 15,000, position_size_pct 15, risk_amount 750 and
\* portfolio_value 100,000; an accepted request returns risk_amount = |price - stop| x
\* quantity and trade_value = quantity x price, and place_order stores these metrics on
\* the order.
C16_MetricsStored ==
    /\ ExampleAccepted
    /\ MetricsOfAccepted({"trade_value", "risk_amount"})

\* the order of the example was placed under the example's settings and snapshot
C16_Witness ==
    /\ snapshot = Some(ExampleSnapshot)
    /\ settings.require_stop_loss
    /\ \E i \in 1..Len(orders) :
          /\ orders[i].symbol = "AAA" /\ orders[i].side = BUY /\ orders[i].quantity = 100
          /\ orders[i].risk_amount = 1500
          /\ orders[i].position_size_pct = FInt(15)

\* validate_trade reads the settings, the snapshot and the positions and nothing else:
\* with the other tables emptied it returns what it returns now
ReadsItsInputsOnly ==
    \A req \in ConcRequests : \A price \in {90, 100, 110} :
        validate_trade([DB EXCEPT !.stocks = {}, !.orders = <<>>, !.executions = <<>>],
                       req.symbol, req.side, req.quantity, price,
                       req.stop_loss_price, req.take_profit_price)
            = validate_trade(DB, req.symbol, req.side, req.quantity, price,
                             req.stop_loss_price, req.take_profit_price)

\* the step in which a session validates its request writes no table, so that a second
\* validation reads what the first read; the result the session holds is the one
\* validate_trade returns for these tables
ValidationWritesNothing ==
    \A s \in Sessions :
        (sess[s].pc = "idle" /\ sess'[s].pc = "validated") =>
            /\ UNCHANGED <<stocks, positions, orders, executions, settings, snapshot>>
            /\ \A req \in ConcRequests : \A price \in {90, 100, 110} :
                  (sess'[s].req = req /\ sess'[s].price = price) =>
                      sess'[s].validation_result =
                          validate_trade(DB, req.symbol, req.side, req.quantity, price,
                                         req.stop_loss_price, req.take_profit_price)

SellFillArithmetic ==
    \A s \in Symbols : \A i \in (Len(orders) + 1)..Len(orders') :
        ( /\ orders'[i].symbol = s
          /\ orders'[i].side = SELL
          /\ orders'[i].status = FILLED
          /\ ~IsNone(OpenPosition(DB, s)) ) =>
            LET before == Val(positions[s])
                after == Val(positions'[s])
                qty == orders'[i].filled_quantity
                price == Val(orders'[i].average_fill_price)
            IN  /\ after.realized_pnl =
                       FAdd(before.realized_pnl,
                            FMul(FSub(FInt(price), before.average_cost), FInt(qty)))
                /\ after.quantity = before.quantity - qty
                /\ after.average_cost = before.average_cost
                /\ after.quantity > 0 => after.is_open

\* 100 shares at an average cost of 100, of which 40 are sold at 120
SellExample ==
    LET position == [NewPosition(1) EXCEPT !.quantity = 100, !.average_cost = FInt(100),
                                           !.is_open = TRUE]
        after == _update_position_on_sell(position, 40, 120, 2)
    IN  /\ after.realized_pnl = FInt(800)
        /\ after.quantity = 60
        /\ after.average_cost = FInt(100)
        /\ after.is_open

\* C18: a sell fill of qty at price on an open position adds (price - average_cost) x
\* qty to realized_pnl, reduces quantity by qty and never alters average_cost; with a
\* remaining quantity above 0 the position stays open.  Quantity 100 at average cost
\* 100, Sell 40 at 120: realized_pnl +800, quantity 60, average_cost 100, still open.
C18_SellFill ==
    /\ []SellExample
    /\ [][SellFillArithmetic]_vars

\* part of a position was sold at a price other than its average cost
C18_Witness ==
    \E s \in Symbols :
        /\ ~IsNone(OpenPosition(DB, s))
        /\ Val(positions[s]).quantity > 0
        /\ Val(positions[s]).realized_pnl # FZero
        /\ FilledOrders(s, SELL, 0) # {}

\* a position row is closed as the quantity == 0 branch leaves it
ClosedAtZero(row) ==
    /\ ~row.is_open
    /\ ~IsNone(row.closed_at)
    /\ row.quantity = 0
    /\ row.market_value = Some(0)
    /\ row.unrealized_pnl = FZero
    /\ row.unrealized_pnl_pct = FZero

\* the filled orders for a symbol that a step adds
NewFills(s, side) ==
    { i \in (Len(orders) + 1)..Len(orders') :
        orders'[i].symbol = s /\ orders'[i].side = side /\ orders'[i].status = FILLED }

\* a Sell fill that leaves nothing closes the position in its step, and a position
\* that goes from open to closed does so in a step with a fill that leaves nothing
ClosesAtZero ==
    \A s \in Symbols :
        ~IsNone(OpenPosition(DB, s)) =>
            /\ (NewFills(s, SELL) # {} /\ Val(positions'[s]).quantity = 0)
                   => ClosedAtZero(Val(positions'[s]))
            /\ ~Val(positions'[s]).is_open
                   => /\ NewFills(s, SELL) # {}
                      /\ Val(positions'[s]).quantity = 0

\* C19: a sell fill that brings a position's quantity to exactly 0 closes the position
\* in the same step: is_open false, closed_at set, market_value, unrealized_pnl and
\* unrealized_pnl_pct 0.  A position is closed only by a fill that brings its quantity
\* to 0.
C19_ClosedAtZero ==
    /\ [](\A s \in Symbols :
             (~IsNone(positions[s]) /\ ~Val(positions[s]).is_open)
                 => ClosedAtZero(Val(positions[s])))
    /\ [][ClosesAtZero]_vars

\* a position that was bought at a price has been sold out and is closed
C19_Witness ==
    \E s \in Symbols :
        /\ ~IsNone(positions[s])
        /\ ~Val(positions[s]).is_open
        /\ FPos(Val(positions[s]).average_cost)
        /\ FilledQty(s, BUY, 0) > 0
        /\ FilledQty(s, SELL, 0) = FilledQty(s, BUY, 0)

\* C20: there is never more than one open position per account and instrument, and a
\* position can be opened again: after a sell has closed it, an accepted paper Buy of
\* the instrument succeeds and leaves one open position for the key, with the bought
\* quantity and the fill price as average cost.
C20_ReopenAfterClose ==
    \A req \in Requests : \A quote \in QuotesFor(req) :
        LET row == positions[req.symbol]
            price == ResolvePrice(req, quote)
        IN  ( /\ req.side = BUY /\ req.quantity > 0
              /\ settings.paper_trading_enabled
              /\ ~IsNone(row) /\ ClosedAtZero(Val(row))
              /\ \A i \in 1..Len(orders) :
                    orders[i].symbol = req.symbol => orders[i].quantity > 0
              /\ ~IsNone(price)
              /\ validate_trade(DB, req.symbol, BUY, req.quantity, Val(price),
                                req.stop_loss_price, req.take_profit_price).validated ) =>
                LET r == place_order(DB, req, quote)
                    opened == OpenPosition(r.db, req.symbol)
                IN  /\ ~r.raised
                    /\ ~IsNone(opened)
                    /\ Val(opened).quantity = req.quantity
                    /\ Val(opened).average_cost = FInt(Val(price))

\* lots and prices whose products lie below, at and above 20 percent of a portfolio of
\* 2000 (400) and of the example's portfolio (40000 half dollars, 20,000)
SizedLots == {1, 4, 5, 100}
SizedPrices == {100, 300, 400, 401, 500}

\* the checks that validate_trade runs before the sizing check pass
ReachesSizing ==
    check_circuit_breaker = OK /\ check_max_positions(DB, BUY) = OK

\* the sizing check of a Buy compares quantity x price x 100 with position_size_pct x
\* portfolio_value, and a portfolio value of 0 has a reason of its own
SizingOfBuys ==
    \A quantity \in SizedLots : \A price \in SizedPrices : \A s \in Symbols :
        LET check == validate_position_size(DB, s, quantity, price, BUY)
            v == validate_trade(DB, s, BUY, quantity, price, None, None)
            over == quantity * price * 100 > settings.position_size_pct * _get_portfolio_value
        IN  /\ _get_portfolio_value = 0 <=> check = "portfolio_value_zero"
            /\ (_get_portfolio_value # 0 /\ over) <=> check = "position_size_exceeds_limit"
            /\ (_get_portfolio_value # 0 /\ ~over) <=> check = OK
            /\ ReachesSizing => (check # OK => ~v.validated /\ v.reason = check)
            /\ v.reason \in {"portfolio_value_zero", "position_size_exceeds_limit"}
                   => v.reason = check

\* with position_size_pct 20 and a portfolio of 100,000, a Buy worth 25,000 is
\* rejected for its size and one worth 20,000 is not
SizingExample ==
    (snapshot = Some(ExampleSnapshot) /\ settings.position_size_pct = 20) =>
        /\ validate_position_size(DB, "AAA", 100, 500, BUY) = "position_size_exceeds_limit"
        /\ ReachesSizing =>
               validate_trade(DB, "AAA", BUY, 100, 500, Some(475), None).reason
                   = "position_size_exceeds_limit"
        /\ validate_position_size(DB, "AAA", 100, 400, BUY) = OK

StopsAround100 == {79, 80, 95, 99, 100, 120, 121}

\* C22: a supplied stop-loss price is rejected by validate_trade when |stop_loss - price|
\* / price is below 1% or above 20%, whether or not require_stop_loss is set; with
\* require_stop_loss set a request without a stop-loss price is rejected; a distance
\* from 1% to 20% inclusive passes the check.
C22_StopLossRange ==
    /\ \A stop \in StopsAround100 :
          LET distance == Abs(stop - 100)
              check == validate_stop_loss(Some(stop), 100)
              v == validate_trade(DB, "AAA", BUY, 1, 100, Some(stop), None)
          IN  /\ distance < 1 => (check = "stop_loss_too_tight" /\ ~v.validated)
              /\ distance > 20 => (check = "stop_loss_too_wide" /\ ~v.validated)
              /\ (1 <= distance /\ distance <= 20) => check = OK
    /\ settings.require_stop_loss =>
          /\ validate_stop_loss(None, 100) = "stop_loss_required"
          /\ ~validate_trade(DB, "AAA", BUY, 1, 100, None, None).validated

\* C23: with place_order calls run one at a time and the settings unchanged, from a
\* state with at most max_open_positions open positions, the number of open positions
\* never exceeds max_open_positions: a Buy is rejected whenever the count is at or over
\* the limit, and a Sell is never rejected by this check.
C23_MaxOpenPositions ==
    /\ _get_open_positions_count(DB) <= settings.max_open_positions
    /\ check_max_positions(DB, SELL) = OK
    /\ _get_open_positions_count(DB) >= settings.max_open_positions =>
          /\ check_max_positions(DB, BUY) = "max_positions_reached"
          /\ \A req \in Requests : \A quote \in QuotesFor(req) :
                req.side = BUY => place_order(DB, req, quote).raised

\* the one position the limit allows is open, and a Buy of the other instrument that
\* passes every other check is refused
C23_Witness ==
    /\ settings.max_open_positions = 1
    /\ _get_open_positions_count(DB) = 1
    /\ ~IsNone(OpenPosition(DB, "AAA"))
    /\ check_circuit_breaker = OK
    /\ validate_trade(DB, "BBB", BUY, 1, 100, Some(95), None).reason = "max_positions_reached"

\* lots and prices whose products lie below, at and above the cash over the reserve of
\* the small portfolio (800) and of the one short of cash (100)
CashLots == {1, 4, 8}
CashPrices == {99, 100, 101, 200}

\* C24: for a Buy, validate_trade rejects on cash availability exactly when quantity x
\* price is greater than cash_balance - portfolio_value x min_cash_reserve_pct / 100,
\* taken from the most recent snapshot; a Sell is never rejected by this check.
C24_CashAvailable ==
    \A quantity \in CashLots : \A price \in CashPrices :
        LET check == validate_cash_available(quantity, price, BUY)
            v == validate_trade(DB, "BBB", BUY, quantity, price, Some(price - 5), None)
            over == quantity * price * 100 >
                        _get_cash_balance * 100
                            - _get_portfolio_value * settings.min_cash_reserve_pct
        IN  /\ over <=> check = "insufficient_cash"
            /\ ~over <=> check = OK
            /\ validate_cash_available(quantity, price, SELL) = OK
            /\ v.reason = "insufficient_cash" => over
            /\ ( /\ ReachesSizing
                 /\ validate_position_size(DB, "BBB", quantity, price, BUY) = OK
                 /\ over ) => (~v.validated /\ v.reason = "insufficient_cash")

\* an order was placed from the portfolio that is short of cash, where a Buy for 100
\* fits the cash over the reserve and a Buy for 101 does not
C24_Witness ==
    /\ snapshot = Some(LowCashSnapshot)
    /\ Len(orders) > 0
    /\ validate_trade(DB, "BBB", BUY, 1, 101, Some(96), None).reason = "insufficient_cash"
    /\ validate_cash_available(1, 100, BUY) = OK

\* without a snapshot dated today the daily P&L is 0 and the circuit breaker passes;
\* without any snapshot the portfolio value and the cash balance are 0
ZeroDefaults ==
    /\ (IsNone(snapshot) \/ ~Val(snapshot).is_today) =>
          (_get_daily_pnl = 0 /\ check_circuit_breaker = OK)
    /\ IsNone(snapshot) => (_get_portfolio_value = 0 /\ _get_cash_balance = 0)

\* the reasons by which a Buy is refused for the values of the snapshot
SnapshotReasons == {"portfolio_value_zero", "position_size_exceeds_limit", "insufficient_cash"}

\* C25 as the code has it: the zero defaults apply; a snapshot of an earlier day is
\* traded on with its values; without any snapshot every Buy is rejected because the
\* portfolio value is zero, and a Sell is not refused for the snapshot.
C25_MissingSnapshot ==
    /\ ZeroDefaults
    /\ \A req \in SizingRequests : \A quote \in QuotesFor(req) :
          LET v == validate_trade(DB, req.symbol, req.side, req.quantity,
                                  Val(ResolvePrice(req, quote)),
                                  req.stop_loss_price, req.take_profit_price)
          IN  ~IsNone(ResolvePrice(req, quote)) =>
                  /\ (IsNone(snapshot) /\ req.side = BUY) =>
                         (~v.validated /\ v.reason = "portfolio_value_zero")
                  /\ req.side = SELL => v.reason \notin SnapshotReasons
    /\ snapshot = Some(StaleSnapshot) =>
          /\ _get_portfolio_value = 2000 /\ _get_cash_balance = 1000
          /\ validate_trade(DB, "BBB", BUY, 1, 100, Some(95), None).validated

\* an order was placed on a snapshot of an earlier day that lost more than the limit,
\* with the circuit breaker on
C25_Witness ==
    /\ snapshot = Some(StaleSnapshot)
    /\ settings.circuit_breaker_enabled
    /\ Len(orders) > 0

\* C25: a missing portfolio snapshot never makes validation fail the trade: with no
\* snapshot dated today the daily P&L is taken as 0 and the circuit breaker does not
\* trip, and with no snapshot at all the portfolio value and the cash balance are taken
\* as 0 and the request is not rejected for that reason: trading on absent data is
\* permitted.
C25_AbsentDataPermitted ==
    /\ ZeroDefaults
    /\ IsNone(snapshot) =>
          \A req \in SizingRequests : \A quote \in QuotesFor(req) :
              ~IsNone(ResolvePrice(req, quote)) =>
                  validate_trade(DB, req.symbol, req.side, req.quantity,
                                 Val(ResolvePrice(req, quote)),
                                 req.stop_loss_price, req.take_profit_price).reason
                      \notin SnapshotReasons

\* C26: in execute_live_trade only an explicit rejection by the broker moves the order
\* to Rejected; when the broker call fails with an ambiguous outcome (a transport error
\* or a timeout) the order is left Pending or Submitted and the error is raised to the
\* caller.
C26_AmbiguousLeftOpen ==
    \A i \in 1..Len(orders) :
        (orders[i].status = PENDING /\ ~orders[i].is_paper_trade) =>
            LET refused == execute_live_trade(orders[i], "rejected")
                unknown == execute_live_trade(orders[i], "timeout")
            IN  /\ refused.raised /\ refused.order.status = REJECTED
                /\ unknown.raised /\ unknown.order.status \in {PENDING, SUBMITTED}
                /\ \A outcome \in BrokerOutcomes :
                      execute_live_trade(orders[i], outcome).order.status = REJECTED
                          => outcome = "rejected"

\* the requests under way or just over
Calls == { s \in Sessions : sess[s].pc # "idle" }

\* at most two attempts, the second after a 401 and one refresh; a result is returned
\* only for a good answer, and every other end of the request is a raise
TwoAttempts ==
    \A s \in Calls :
        LET call == sess[s]
            n == Len(call.answers)
        IN  /\ call.attempts <= 2 /\ call.refreshes <= 1
            /\ n <= call.attempts
            /\ call.attempts = 2 => (call.answers[1] = "401" /\ call.refreshes = 1)
            /\ call.refreshes = 1 => call.answers[1] = "401"
            /\ call.pc = "returned" <=> (n > 0 /\ call.answers[n] = "200")
            /\ call.pc = "raised" =>
                   \/ call.attempts = 0
                   \/ (n = call.attempts /\ call.answers[n] # "200")
                   \/ (n = 1 /\ call.attempts = 1 /\ call.refreshes = 1)

\* a request that has raised or returned makes no further attempt
NoFurtherRetry ==
    \A s \in Sessions :
        (sess[s].pc \in {"returned", "raised"} /\ sess'[s] # sess[s]) => sess'[s] = Idle

\* C27: one _make_request attempts the HTTP call at most twice: a second attempt is
\* made only after a 401 answer followed by one token refresh, and if the refresh or
\* the second attempt fails the error is raised to the caller; there is no further
\* retry, and a failed request is never reported as a success.
C27_RetryOnce ==
    /\ []TwoAttempts
    /\ [][NoFurtherRetry]_vars

\* one request came back on its second attempt, another raised on its second 401
C27_Witness ==
    /\ \E s \in Calls : sess[s].pc = "returned" /\ sess[s].attempts = 2
    /\ \E s \in Calls : sess[s].pc = "raised" /\ sess[s].answers = <<"401", "401">>

\* C28: a Sell for at most the held quantity of an open position, carrying no stop-loss
\* and no take-profit price (the shape of the exit orders of the position monitor), is
\* not rejected by the stop-loss check of validate_trade, for either value of
\* require_stop_loss: the stop-loss requirement applies to buys, not to exits.
C28_ExitsNeedNoStop ==
    \A s \in Symbols : \A quote \in {90, 110} :
        LET row == OpenPosition(DB, s)
        IN  (~IsNone(row) /\ Val(row).quantity > 0) =>
                LET exit == ExitRequest(s, Val(row).quantity, "stop_loss")
                    v == validate_trade(DB, s, SELL, exit.quantity, quote,
                                        exit.stop_loss_price, exit.take_profit_price)
                IN  /\ validate_stop_loss(exit.stop_loss_price, quote) = OK
                    /\ v.reason \notin {"stop_loss_required", "stop_loss_too_tight",
                                        "stop_loss_too_wide"}

\* C29: in every reachable state a position is open if and only if its quantity is
\* greater than 0, for any integer quantity passed to place_order: a Buy or Sell with
\* quantity 0 or a negative quantity is rejected, and neither creates an open position
\* with quantity <= 0 nor changes an existing position.
C29_OpenIffPositive ==
    /\ \A s \in Symbols :
          ~IsNone(positions[s]) =>
              (Val(positions[s]).is_open <=> Val(positions[s]).quantity > 0)
    /\ \A req \in Requests : \A quote \in QuotesFor(req) :
          req.quantity <= 0 =>
              LET r == place_order(DB, req, quote)
              IN  r.raised /\ r.db.positions = positions

\* the value of the paper Buy orders filled so far: quantity x fill price
BoughtOnPaper ==
    SumOf([i \in 1..Len(orders) |-> orders[i].filled_quantity
                                        * Val(orders[i].average_fill_price)],
          { i \in 1..Len(orders) : /\ orders[i].side = BUY
                                   /\ orders[i].status = FILLED
                                   /\ orders[i].is_paper_trade })

\* C30: the paper Buy orders accepted and filled against one unchanged snapshot have
\* trade values (quantity x price) that sum to at most the snapshot's cash_balance -
\* total_value x min_cash_reserve_pct / 100: the cash that earlier fills committed
\* counts when a later Buy is validated.
C30_CashCommitted ==
    ~IsNone(snapshot) =>
        BoughtOnPaper * 100 <=
            Val(snapshot).cash_balance * 100
                - Val(snapshot).total_value * settings.min_cash_reserve_pct
====
